---------------------------- MODULE Spec2Model ----------------------------
(***************************************************************************)
(* Model of the man-page signature extractor of execute-syscall:           *)
(*   sysDef/SyscallParameter.py  (parameter tokenizer and serializer)      *)
(*   sysDef/Definition.py        (declaration parser and serializer)       *)
(*   sysDef/SyscallManual.py     (synopsis scan and selection)             *)
(* Text is modelled by TLA+ strings, one character per position; the      *)
(* Python string methods the code uses are the operators of the first     *)
(* section, written to behave as the Python methods do.                    *)
(***************************************************************************)
EXTENDS Integers, Sequences, FiniteSets, TLC

VARIABLES
    pc,                \* position of the running operation
    parameter_string,  \* SyscallParameter.__init__: its argument
    parameter,         \* the SyscallParameter object built (or the exception)
    representation,    \* the text __str__ / __repr__ returned
    definition_line,   \* Definition.__init__: its argument
    definition,        \* the Definition object built (or the exception)
    raw_line,          \* a line as read from the manual page
    line,              \* the line after char_backspace.sub("", line)
    syscall_name,      \* _parse_definition: its argument
    manual,            \* what `man 2 <name>` answers, for each name asked
    requested,         \* the names `man 2` was run for, in order
    man_page,          \* the lines of the manual page as they were read
    man_page_lines,    \* the lines of the manual page not yet consumed
    heap,              \* the Definition objects built so far, by identity
    all_definitions,   \* list of references to every Definition built
    definitions,       \* the copy of all_definitions the filter consumes
    def_index,         \* index of the filter loop (-1: not yet bound)
    result,            \* what _parse_definition returned or raised
    candidates,        \* the lines handed to Definition(line), in order
    sources,           \* for each of them, where in man_page it was taken from
    extracted,         \* the Definition objects as they were when the scan ended
    engine,            \* the class whose _parse_definition runs
    lookups,           \* the lookups a caller makes: name, manual and engine
    running,           \* the lookup whose frame the variables above hold
    suspended,         \* the frame of the lookup that waits for its turn
    alone              \* what each lookup came to when it ran by itself

paramVars == <<parameter_string, parameter>>

defVars == <<definition_line, definition>>

normVars == <<raw_line, line>>

manVars == <<manual, requested>>

pairVars == <<lookups, running, suspended, alone>>

lookupVars == <<syscall_name, manVars, man_page, man_page_lines, heap, all_definitions,
                definitions, def_index, result, candidates, sources, extracted, engine,
                pairVars>>

vars == <<pc, representation, paramVars, defVars, normVars, lookupVars>>

(***************************************************************************)
(* Python string primitives                                                *)
(***************************************************************************)

\* the value of an attribute that was never set
None == "<None>"

\* the backspace control code (chr(8)); TLA+ has no escape for it
BS == "~"

\* characters str.split() and str.strip() treat as whitespace
Whitespace == {" ", "\t", "\r", "\f"}

Digits == {"0", "1", "2", "3", "4", "5", "6", "7", "8", "9"}

Min(S) == CHOOSE x \in S : \A y \in S : x <= y

Max(S) == CHOOSE x \in S : \A y \in S : x >= y

\* s[i] for a 1-based position
Char(s, i) == SubSeq(s, i, i)

\* a Python slice bound k of a string of length n, clamped as slicing does
PyIdx(k, n) == IF k < 0 THEN (IF n + k < 0 THEN 0 ELSE n + k)
               ELSE (IF k > n THEN n ELSE k)

\* s[:k]
SliceTo(s, k) == SubSeq(s, 1, PyIdx(k, Len(s)))

\* s[k:]
SliceFrom(s, k) == SubSeq(s, PyIdx(k, Len(s)) + 1, Len(s))

\* s.startswith(p)
StartsWith(s, p) == Len(p) <= Len(s) /\ SubSeq(s, 1, Len(p)) = p

\* s.endswith(p)
EndsWith(s, p) == Len(p) <= Len(s) /\ SubSeq(s, Len(s) - Len(p) + 1, Len(s)) = p

\* the 0-based positions at which p occurs in s
Occurrences(s, p) == {i \in 0..(Len(s) - Len(p)) : SubSeq(s, i + 1, i + Len(p)) = p}

\* the least of a set of positions, -1 when there is none
FirstOf(positions) == IF positions = {} THEN -1 ELSE Min(positions)

\* the greatest of a set of positions, -1 when there is none
LastOf(positions) == IF positions = {} THEN -1 ELSE Max(positions)

\* s.find(p): first position, -1 when absent
Find(s, p) == FirstOf(Occurrences(s, p))

\* s.rfind(p): last position, -1 when absent
RFind(s, p) == LastOf(Occurrences(s, p))

\* p in s
Contains(s, p) == Occurrences(s, p) # {}

\* number of leading characters of s that belong to cs
RECURSIVE LeadCount(_, _)
LeadCount(s, cs) ==
    IF Len(s) > 0 /\ Char(s, 1) \in cs THEN 1 + LeadCount(Tail(s), cs) ELSE 0

\* number of trailing characters of s that belong to cs
RECURSIVE TrailCount(_, _)
TrailCount(s, cs) ==
    IF Len(s) > 0 /\ Char(s, Len(s)) \in cs
    THEN 1 + TrailCount(SubSeq(s, 1, Len(s) - 1), cs) ELSE 0

\* s.lstrip(cs)
LStripChars(s, cs) == SubSeq(s, LeadCount(s, cs) + 1, Len(s))

\* s.rstrip(cs)
RStripChars(s, cs) == SubSeq(s, 1, Len(s) - TrailCount(s, cs))

\* s.strip(cs)
StripChars(s, cs) == RStripChars(LStripChars(s, cs), cs)

\* s.strip()
Strip(s) == StripChars(s, Whitespace)

\* number of leading characters of s that are not whitespace
RECURSIVE TokenLen(_)
TokenLen(s) ==
    IF Len(s) > 0 /\ Char(s, 1) \notin Whitespace THEN 1 + TokenLen(Tail(s)) ELSE 0

\* the first whitespace-separated token of t, which has no leading whitespace
LeadToken(t) == SubSeq(t, 1, TokenLen(t))

\* the first whitespace-separated token of s
FirstToken(s) == LeadToken(LStripChars(s, Whitespace))

\* t, which has no leading whitespace, after its first token
AfterLeadToken(t) == SubSeq(t, TokenLen(t) + 1, Len(t))

\* s after its first whitespace-separated token
AfterFirstToken(s) == AfterLeadToken(LStripChars(s, Whitespace))

\* s.split(): the whitespace-separated tokens of s
RECURSIVE Split(_)
Split(s) ==
    IF LeadCount(s, Whitespace) = Len(s) THEN <<>>
    ELSE <<FirstToken(s)>> \o Split(AfterFirstToken(s))

\* a token and the text after it, when there is text
TokenAndRest(token, rest) == IF Len(rest) = 0 THEN <<token>> ELSE <<token, rest>>

\* s.split(None, 1): the first token and the rest, leading whitespace dropped
Split1(s) ==
    IF LeadCount(s, Whitespace) = Len(s) THEN <<>>
    ELSE TokenAndRest(FirstToken(s), LStripChars(AfterFirstToken(s), Whitespace))

\* number of trailing characters of s that are not whitespace
RECURSIVE RTokenLen(_)
RTokenLen(s) ==
    IF Len(s) > 0 /\ Char(s, Len(s)) \notin Whitespace
    THEN 1 + RTokenLen(SubSeq(s, 1, Len(s) - 1)) ELSE 0

\* the last whitespace-separated token of t, which has no trailing whitespace
TrailToken(t) == SubSeq(t, Len(t) - RTokenLen(t) + 1, Len(t))

\* the last whitespace-separated token of s
LastToken(s) == TrailToken(RStripChars(s, Whitespace))

\* t, which has no trailing whitespace, before its last token
BeforeTrailToken(t) == RStripChars(SubSeq(t, 1, Len(t) - RTokenLen(t)), Whitespace)

\* s before its last whitespace-separated token, trailing whitespace dropped
BeforeLastToken(s) == BeforeTrailToken(RStripChars(s, Whitespace))

\* the text before a token, when there is text, and the token
RestAndToken(rest, token) == IF Len(rest) = 0 THEN <<token>> ELSE <<rest, token>>

\* s.rsplit(None, 1): the rest and the last token, trailing whitespace dropped
RSplit1(s) ==
    IF TrailCount(s, Whitespace) = Len(s) THEN <<>>
    ELSE RestAndToken(BeforeLastToken(s), LastToken(s))

\* s.split(sep): the pieces of s between the occurrences of sep
RECURSIVE SplitOn(_, _)
SplitOn(s, sep) ==
    IF ~Contains(s, sep) THEN <<s>>
    ELSE <<SubSeq(s, 1, Find(s, sep))>> \o SplitOn(SliceFrom(s, Find(s, sep) + Len(sep)), sep)

\* s cut at position k, where sep was found, or whole when k is -1
CutAt(s, k, sep) ==
    IF k < 0 THEN <<s>> ELSE <<SubSeq(s, 1, k), SliceFrom(s, k + Len(sep))>>

\* s.split(sep, 1)
SplitOn1(s, sep) == CutAt(s, Find(s, sep), sep)

\* s.replace(a, b)
RECURSIVE Replace(_, _, _)
Replace(s, a, b) ==
    IF ~Contains(s, a) THEN s
    ELSE SubSeq(s, 1, Find(s, a)) \o b \o Replace(SliceFrom(s, Find(s, a) + Len(a)), a, b)

\* sep.join(parts)
RECURSIVE Join(_, _)
Join(sep, parts) ==
    IF Len(parts) = 0 THEN ""
    ELSE IF Len(parts) = 1 THEN parts[1]
    ELSE parts[1] \o sep \o Join(sep, Tail(parts))

(***************************************************************************)
(* sysDef/SyscallParameter.py                                              *)
(***************************************************************************)

\* the fields of a SyscallParameter as the constructor first sets them
NewParameter ==
    [type |-> None, name |-> None, ellipsis |-> FALSE,
     enum |-> FALSE, array |-> FALSE, const |-> FALSE, union |-> FALSE,
     struct |-> FALSE, pointer |-> FALSE, unsigned |-> FALSE,
     function |-> FALSE, const_pointer |-> FALSE]

\* the reference that refers to no object
NoRef == 0

\* raise Exception("Unexpected part in parameter: " + parameter_string)
UnexpectedPart == "Exception: Unexpected part in parameter"

\* an exception leaving a constructor
Raise(exc) == [raised |-> TRUE, exc |-> exc]

\* an object a constructor returned
Built(obj) == [raised |-> FALSE, obj |-> obj]

\* the type and the name of a function-pointer fragment, split where " (*"
\* was found (lines 106-112); k is -1 when it was not found
FunctionTypeAndName(s, k) == <<Strip(SliceTo(s, k)), Strip(SliceFrom(s, k))>>

\* the type and the name of a fragment, split at the last " (*"
TypeAndNameLast(s) ==
    IF EndsWith(s, ")") THEN FunctionTypeAndName(s, RFind(s, " (*")) ELSE RSplit1(s)

\* the type and the name of a fragment (lines 106-116); a sequence of another
\* length is what the unpacking of rsplit fails on
TypeAndName(s) ==
    IF EndsWith(s, ")") THEN FunctionTypeAndName(s, Find(s, " (*")) ELSE RSplit1(s)

\* one pass of the loop that examines the parts of the type (lines 130-151),
\* for the leading item and the rest of the type
RECURSIVE PeelType(_)
PeelItem(p, item, rest) ==
    IF item = "unsigned" THEN PeelType([p EXCEPT !.type = rest, !.unsigned = TRUE])
    ELSE IF item = "const" THEN PeelType([p EXCEPT !.type = rest, !.const = TRUE])
    ELSE IF item = "struct" THEN PeelType([p EXCEPT !.type = rest, !.struct = TRUE])
    ELSE IF item = "union" THEN PeelType([p EXCEPT !.type = rest, !.union = TRUE])
    ELSE IF item = "enum" THEN PeelType([p EXCEPT !.type = rest, !.enum = TRUE])
    ELSE IF rest = "*const"
         THEN PeelType([p EXCEPT !.type = item, !.const_pointer = TRUE])
    ELSE Raise(UnexpectedPart)

\* PeelItem for the two parts of type.split(None, 1)
PeelParts(p, parts) == PeelItem(p, parts[1], parts[2])

\* the loop that examines the parts of the type (lines 129-151)
PeelType(p) ==
    IF Len(Split(p.type)) <= 1 THEN Built(p) ELSE PeelParts(p, Split1(p.type))

\* the array test and what follows it (lines 124-151)
ArrayAndType(p) ==
    IF EndsWith(p.name, "[]")
    THEN PeelType([p EXCEPT !.array = TRUE, !.name = SliceTo(p.name, -2)])
    ELSE PeelType(p)

\* the pointer test and what follows it (lines 119-151)
PointerAndType(p) ==
    IF StartsWith(p.name, "*")
    THEN ArrayAndType([p EXCEPT !.pointer = TRUE, !.name = SliceFrom(p.name, 1)])
    ELSE ArrayAndType(p)

\* the constructor once type and name were split (lines 106-151)
ParameterOfParts(s, parts) ==
    IF Len(parts) # 2 THEN Raise("ValueError")
    ELSE PointerAndType([NewParameter EXCEPT !.type = parts[1], !.name = parts[2],
                                             !.function = EndsWith(s, ")")])

\* the constructor with the ellipsis looked for at the end of the fragment
SyscallParameterEndsWith(s) ==
    IF EndsWith(s, "...") THEN Built([NewParameter EXCEPT !.ellipsis = TRUE])
    ELSE ParameterOfParts(s, TypeAndName(s))

\* SyscallParameter.__init__
SyscallParameter(s) ==
    IF s = "..." THEN Built([NewParameter EXCEPT !.ellipsis = TRUE])
    ELSE ParameterOfParts(s, TypeAndName(s))

\* SyscallParameter.__str__
SyscallParameter_str(p) ==
    IF p.ellipsis THEN "..."
    ELSE (IF p.const THEN "const " ELSE "")
         \o (IF p.struct THEN "struct " ELSE "")
         \o (IF p.union THEN "union " ELSE "")
         \o (IF p.enum THEN "enum " ELSE "")
         \o (IF p.unsigned THEN "unsigned " ELSE "")
         \o p.type \o " "
         \o (IF p.const_pointer THEN "*const " ELSE "")
         \o (IF p.pointer THEN "*" ELSE "")
         \o p.name
         \o (IF p.array THEN "[]" ELSE "")

(***************************************************************************)
(* sysDef/Definition.py                                                    *)
(***************************************************************************)

\* the parameter text as the loop cleans it before parsing (lines 79-83)
CleanParameter(param_string) == Replace(Join(" ", Split(param_string)), "* ", "*")

\* a parsed parameter put in front of the parameters parsed after it
PrependParameter(first, others) ==
    IF others.raised THEN others ELSE Built(<<first>> \o others.obj)

\* the loop over parameters_list (lines 77-91): the SyscallParameter objects,
\* or the first exception (the constructor's, or the failed assertion)
RECURSIVE ParseParameters(_)
\* the pass of the loop without its assertion
UncheckedParameter(param_string, built, others) ==
    IF built.raised THEN built
    ELSE PrependParameter(built.obj, ParseParameters(others))

CheckedParameter(param_string, built, others) ==
    IF built.raised THEN built
    ELSE IF SyscallParameter_str(built.obj) # param_string THEN Raise("AssertionError")
    ELSE PrependParameter(built.obj, ParseParameters(others))

\* one pass of the loop, for the cleaned parameter text
ParseParameter(param_string, others) ==
    CheckedParameter(param_string, SyscallParameter(param_string), others)

ParseParameters(parameters_list) ==
    IF Len(parameters_list) = 0 THEN Built(<<>>)
    ELSE ParseParameter(CleanParameter(Head(parameters_list)), Tail(parameters_list))

\* the Definition of a return type, a name and the outcome of the loop
WithParameters(ret_type, name, parsed) ==
    IF parsed.raised THEN parsed
    ELSE Built([ret_type |-> ret_type, name |-> name, parameters |-> parsed.obj])

\* the parameters of the definition (lines 64-91)
DefinitionParameters(ret_type, name, parameters_list) ==
    IF parameters_list[1] = "void"
    THEN Built([ret_type |-> ret_type, name |-> name, parameters |-> <<>>])
    ELSE WithParameters(ret_type, name, ParseParameters(parameters_list))

\* return type and name (lines 54-62), then the parameters
DefinitionHead(head, parameters_string) ==
    IF Len(head) # 2 THEN Raise("ValueError")
    ELSE DefinitionParameters(
             IF StartsWith(head[2], "*") THEN head[1] \o "*" ELSE head[1],
             IF StartsWith(head[2], "*") THEN SliceFrom(head[2], 1) ELSE head[2],
             SplitOn(StripChars(parameters_string, {"(", ")", ";"}), ", "))

\* the constructor once the line was split at the first bracket (line 52)
DefinitionOfParts(parts) ==
    IF Len(parts) # 2 THEN Raise("ValueError")
    ELSE DefinitionHead(RSplit1(parts[1]), parts[2])

\* Definition.__init__
Definition(text) == DefinitionOfParts(SplitOn1(text, "("))

\* the parameters of a declaration, each serialized
ParameterStrings(parameters) ==
    [i \in 1..Len(parameters) |-> SyscallParameter_str(parameters[i])]

\* Definition.__repr__
Definition_repr(d) ==
    d.ret_type \o " " \o d.name \o "(" \o Join(", ", ParameterStrings(d.parameters)) \o ")"

(***************************************************************************)
(* sysDef/SyscallManual.py                                                 *)
(***************************************************************************)

\* the types of SyscallManual
NO_MAN_ENTRY == 1

NOT_FOUND == 2

UNIMPLEMENTED == 3

FOUND == 4

\* return type, definition
Returned(type, ref) == [raised |-> FALSE, exc |-> None, type |-> type, definition |-> ref]

\* raise Exception("Reached end of man page while looking for SYNOPSIS ine")
EndBeforeSynopsis == "Exception: Reached end of man page while looking for SYNOPSIS"

\* raise Exception("Reached end of man page while looking for DESCRIPTION line.")
EndBeforeDescription == "Exception: Reached end of man page while looking for DESCRIPTION"

\* an exception leaving _parse_definition
Thrown(exc) == [raised |-> TRUE, exc |-> exc, type |-> 0, definition |-> NoRef]

\* char_backspace.sub("", s) for char_backspace = re.compile(".\b"): scanning
\* from the left, a character other than newline followed by a backspace is
\* dropped together with the backspace
RECURSIVE char_backspace_sub(_)
char_backspace_sub(s) ==
    IF Len(s) = 0 THEN ""
    ELSE IF Len(s) >= 2 /\ Char(s, 1) # "\n" /\ Char(s, 2) = BS
         THEN char_backspace_sub(SubSeq(s, 3, Len(s)))
    ELSE Char(s, 1) \o char_backspace_sub(Tail(s))

\* removal of the comment of a line, when it has one (lines 274-276, 297-299)
RemoveComment(l) ==
    IF Contains(l, "/*") /\ Contains(l, "*/")
    THEN Strip(SliceTo(l, Find(l, "/*")) \o SliceFrom(l, RFind(l, "*/") + 2))
    ELSE l

\* the test of line 282: two parts and an opening bracket
IsDefinitionStart(l) == Len(Split(l)) > 1 /\ Contains(l, "(")

\* the test of line 310 without the test of the end of the line
IsCompleteDefinitionOpen(l) == Len(Split(l)) > 1 /\ Contains(l, "(")

\* the test of line 310: two parts, an opening bracket, and ");" at the end
IsCompleteDefinition(l) == Len(Split(l)) > 1 /\ Contains(l, "(") /\ EndsWith(l, ");")

\* the loop joining a line with the lines after it (lines 289-304); lines holds
\* man_page_lines after the pop, whose index past the end is an IndexError
RECURSIVE JoinLines(_, _, _)
\* the end of a pass of the joining loop that stops after four lines
JoinedLineFour(joined, times, lines) ==
    IF times = 4 THEN Built([text |-> joined, times |-> times])
    ELSE JoinLines(joined, times, lines)

JoinedLine(joined, times, lines) ==
    IF times = 3 THEN Built([text |-> joined, times |-> times])
    ELSE JoinLines(joined, times, lines)

JoinLines(l, times, lines) ==
    IF EndsWith(l, ";") THEN Built([text |-> l, times |-> times])
    ELSE IF times >= Len(lines) THEN Raise("IndexError")
    ELSE JoinedLine(RemoveComment(l \o " " \o Strip(char_backspace_sub(lines[times + 1]))),
                    times + 1, lines)

\* the same loop in SyscallDefinition.py (lines 595-610), where the lines that
\* are joined keep their backspaces
RECURSIVE LegacyJoinLines(_, _, _)
LegacyJoinedLine(joined, times, lines) ==
    IF times = 3 THEN Built([text |-> joined, times |-> times])
    ELSE LegacyJoinLines(joined, times, lines)

LegacyJoinLines(l, times, lines) ==
    IF EndsWith(l, ";") THEN Built([text |-> l, times |-> times])
    ELSE IF times >= Len(lines) THEN Raise("IndexError")
    ELSE LegacyJoinedLine(RemoveComment(l \o " " \o Strip(lines[times + 1])),
                          times + 1, lines)

\* the underscore step removing every leading underscore
WithoutUnderscores(name, queried) ==
    IF StartsWith(name, "_") /\ StartsWith(queried, LStripChars(name, {"_"}))
    THEN LStripChars(name, {"_"}) ELSE name

\* the underscore step of the filter loop (lines 331-333): the name the
\* definition has afterwards
WithoutUnderscore(name, queried) ==
    IF StartsWith(name, "_") /\ StartsWith(queried, SliceFrom(name, 1))
    THEN SliceFrom(name, 1) ELSE name

\* the test of line 338 with receiver and argument exchanged
KeepsDefinitionSwapped(name, queried) == StartsWith(name, queried)

\* the test of line 338: the definition stays in definitions
KeepsDefinition(name, queried) == StartsWith(queried, name)

\* the definitions whose name is the queried name (lines 362-365)
SameNameDefinitions(refs, objects, queried) ==
    LET Same(r) == objects[r].name = queried IN SelectSeq(refs, Same)

\* the loop of lines 369-373 from position sd_index on; positions count from 1
RECURSIVE MostParametersLoop(_, _, _, _)
MostParametersLoop(same, objects, sd_index, most) ==
    IF sd_index > Len(same) THEN most
    ELSE IF Len(objects[same[sd_index]].parameters) > Len(objects[same[most]].parameters)
         THEN MostParametersLoop(same, objects, sd_index + 1, sd_index)
    ELSE MostParametersLoop(same, objects, sd_index + 1, most)

\* the loop of lines 369-373 with >= for >: the last of equals wins
RECURSIVE MostParametersLoopGeq(_, _, _, _)
MostParametersLoopGeq(same, objects, sd_index, most) ==
    IF sd_index > Len(same) THEN most
    ELSE IF Len(objects[same[sd_index]].parameters) >= Len(objects[same[most]].parameters)
         THEN MostParametersLoopGeq(same, objects, sd_index + 1, sd_index)
    ELSE MostParametersLoopGeq(same, objects, sd_index + 1, most)

\* most_parameters_index after the loop with >= for >
MostParametersIndexGeq(same, objects) == MostParametersLoopGeq(same, objects, 1, 1)

\* most_parameters_index after the loop
MostParametersIndex(same, objects) == MostParametersLoop(same, objects, 1, 1)

\* the name left as it is, no digit stripped
StrippedNameKept(name) == name

\* name.rstrip("0123456789")
StrippedName(name) == RStripChars(name, Digits)

\* the definitions whose name without the number at the end is the queried
\* name without the number at the end (lines 379-386)
SimilarDefinitions(refs, objects, queried) ==
    LET Similar(r) == StrippedName(objects[r].name) = StrippedName(queried)
    IN  SelectSeq(refs, Similar)

\* the choice among the definitions of a similar name without its assertion
ChooseSimilarFirst(similar) ==
    IF Len(similar) = 0 THEN Returned(NOT_FOUND, NoRef)
    ELSE Returned(FOUND, similar[1])

\* the choice among the definitions of a similar name (lines 388-394)
ChooseSimilar(similar) ==
    IF Len(similar) > 1 THEN Thrown("AssertionError")
    ELSE IF Len(similar) = 0 THEN Returned(NOT_FOUND, NoRef)
    ELSE Returned(FOUND, similar[1])

\* the choice among several definitions (lines 362-394)
ChooseBest(same, refs, objects, queried) ==
    IF Len(same) > 0 THEN Returned(FOUND, same[MostParametersIndex(same, objects)])
    ELSE ChooseSimilar(SimilarDefinitions(refs, objects, queried))

\* the choice among several definitions in SyscallDefinition.py (lines
\* 665-699): re.search(r'(*)\d+$', ...) of line 688 does not compile, so the
\* loop over the definitions of a similar name raises re.error in its first
\* pass
LegacyChooseBest(same, objects) ==
    IF Len(same) > 0 THEN Returned(FOUND, same[MostParametersIndex(same, objects)])
    ELSE Thrown("re.error")

\* what _parse_definition of SyscallDefinition.py returns or raises once the
\* filter is done (lines 649-699)
LegacyChooseDefinition(refs, objects, queried) ==
    IF Len(refs) = 0 THEN Returned(NOT_FOUND, NoRef)
    ELSE IF Len(refs) = 1 THEN Returned(FOUND, refs[1])
    ELSE LegacyChooseBest(SameNameDefinitions(refs, objects, queried), objects)

\* the choice without the branch for exactly one definition (lines 348-350)
ChooseDefinitionNoSingle(refs, objects, queried) ==
    IF Len(refs) = 0 THEN Returned(NOT_FOUND, NoRef)
    ELSE ChooseBest(SameNameDefinitions(refs, objects, queried), refs, objects, queried)

\* what _parse_definition returns or raises once the filter is done
\* (lines 343-394)
ChooseDefinition(refs, objects, queried) ==
    IF Len(refs) = 0 THEN Returned(NOT_FOUND, NoRef)
    ELSE IF Len(refs) = 1 THEN Returned(FOUND, refs[1])
    ELSE ChooseBest(SameNameDefinitions(refs, objects, queried), refs, objects, queried)

\* subprocess.check_output raised CalledProcessError
ManFails == [failed |-> TRUE, lines |-> <<>>]

\* the output of man, decoded and split into lines (lines 167, 214)
Answered(lines) == [failed |-> FALSE, lines |-> lines]

\* the lines of an empty output: "".split("\n")
EmptyText == <<"">>

\* the test of line 206
EndsWith32Or64(name) == EndsWith(name, "32") \/ EndsWith(name, "64")

\* the manual page of syscall_name is read (lines 159-167)
ReadManPage ==
    /\ pc = "man"
    /\ requested' = Append(requested, syscall_name)
    /\ IF manual[syscall_name].failed
       THEN /\ result' = Returned(NO_MAN_ENTRY, NoRef)
            /\ pc' = "done"
            /\ UNCHANGED <<man_page, man_page_lines>>
       ELSE /\ man_page' = manual[syscall_name].lines
            /\ man_page_lines' = manual[syscall_name].lines
            /\ pc' = "empty"
            /\ UNCHANGED result
    /\ UNCHANGED <<pairVars, engine, syscall_name, manual, heap, all_definitions, definitions, def_index,
                   candidates, sources, extracted, representation, paramVars, defVars, normVars>>

\* the second reading of the manual page, the shortened name becoming the
\* name that is looked up
RetryManPageRenaming ==
    /\ pc = "empty"
    /\ IF Len(man_page_lines) = 1 /\ man_page_lines[1] = ""
       THEN IF EndsWith32Or64(syscall_name)
            THEN /\ requested' = Append(requested, SliceTo(syscall_name, -2))
                 /\ syscall_name' = SliceTo(syscall_name, -2)
                 /\ IF manual[SliceTo(syscall_name, -2)].failed
                    THEN /\ result' = Returned(NO_MAN_ENTRY, NoRef)
                         /\ pc' = "done"
                         /\ UNCHANGED <<man_page, man_page_lines>>
                    ELSE /\ man_page' = manual[SliceTo(syscall_name, -2)].lines
                         /\ man_page_lines' = manual[SliceTo(syscall_name, -2)].lines
                         /\ pc' = "synopsis"
                         /\ UNCHANGED result
            ELSE /\ result' = Returned(NO_MAN_ENTRY, NoRef)
                 /\ pc' = "done"
                 /\ UNCHANGED <<pairVars, engine, syscall_name, requested, man_page, man_page_lines>>
       ELSE /\ pc' = "synopsis"
            /\ UNCHANGED <<pairVars, engine, syscall_name, requested, man_page, man_page_lines, result>>
    /\ UNCHANGED <<pairVars, engine, manual, heap, all_definitions, definitions, def_index,
                   candidates, sources, extracted, representation, paramVars, defVars, normVars>>

\* an empty manual page is read again under the name without its last two
\* characters, when the name ends with 32 or 64 (lines 204-216)
RetryManPage ==
    /\ pc = "empty"
    /\ IF Len(man_page_lines) = 1 /\ man_page_lines[1] = ""
       THEN IF EndsWith32Or64(syscall_name)
            THEN /\ requested' = Append(requested, SliceTo(syscall_name, -2))
                 /\ IF manual[SliceTo(syscall_name, -2)].failed
                    THEN /\ result' = Returned(NO_MAN_ENTRY, NoRef)
                         /\ pc' = "done"
                         /\ UNCHANGED <<man_page, man_page_lines>>
                    ELSE /\ man_page' = manual[SliceTo(syscall_name, -2)].lines
                         /\ man_page_lines' = manual[SliceTo(syscall_name, -2)].lines
                         /\ pc' = "synopsis"
                         /\ UNCHANGED result
            ELSE /\ result' = Returned(NO_MAN_ENTRY, NoRef)
                 /\ pc' = "done"
                 /\ UNCHANGED <<requested, man_page, man_page_lines>>
       ELSE /\ pc' = "synopsis"
            /\ UNCHANGED <<requested, man_page, man_page_lines, result>>
    /\ UNCHANGED <<pairVars, engine, syscall_name, manual, heap, all_definitions, definitions, def_index,
                   candidates, sources, extracted, representation, paramVars, defVars, normVars>>

\* one pass of the loop looking for the SYNOPSIS line, the end of the page
\* being answered as a name that was not found
FindSynopsisNotFound ==
    /\ pc = "synopsis"
    /\ IF Len(man_page_lines) = 0
       THEN /\ result' = Returned(NOT_FOUND, NoRef)
            /\ pc' = "done"
            /\ UNCHANGED man_page_lines
       ELSE /\ man_page_lines' = Tail(man_page_lines)
            /\ pc' = IF char_backspace_sub(Head(man_page_lines)) = "SYNOPSIS"
                     THEN "scan" ELSE "synopsis"
            /\ UNCHANGED result
    /\ UNCHANGED <<pairVars, engine, syscall_name, manVars, man_page, heap, all_definitions, definitions,
                   def_index, candidates, sources, extracted, representation, paramVars, defVars,
                   normVars>>

\* one pass of the loop looking for the SYNOPSIS line (lines 228-245)
FindSynopsis ==
    /\ pc = "synopsis"
    /\ IF Len(man_page_lines) = 0
       THEN /\ result' = Thrown(EndBeforeSynopsis)
            /\ pc' = "done"
            /\ UNCHANGED man_page_lines
       ELSE /\ man_page_lines' = Tail(man_page_lines)
            /\ pc' = IF char_backspace_sub(Head(man_page_lines)) = "SYNOPSIS"
                     THEN "scan" ELSE "synopsis"
            /\ UNCHANGED result
    /\ UNCHANGED <<pairVars, engine, syscall_name, manVars, man_page, heap, all_definitions, definitions,
                   def_index, candidates, sources, extracted, representation, paramVars, defVars,
                   normVars>>

\* _parse_definition leaves the scan loop by return or by an exception
LeaveScan(outcome) ==
    /\ result' = outcome
    /\ pc' = "done"
    /\ UNCHANGED <<heap, all_definitions, definitions, def_index, candidates, sources, extracted>>

\* the scan loop goes on to the next line without building a Definition
ContinueScan ==
    /\ pc' = "scan"
    /\ UNCHANGED <<heap, all_definitions, definitions, def_index, candidates, sources, extracted,
                   result>>

\* the Definition built from a complete line is appended, or its exception
\* leaves _parse_definition (line 316)
AppendDefinition(built) ==
    IF built.raised
    THEN /\ result' = Thrown(built.exc)
         /\ pc' = "done"
         /\ UNCHANGED <<heap, all_definitions, definitions, def_index, extracted>>
    ELSE /\ heap' = Append(heap, built.obj)
         /\ all_definitions' = Append(all_definitions, Len(heap) + 1)
         /\ pc' = "scan"
         /\ UNCHANGED <<definitions, def_index, extracted, result>>

\* the line after the joining loop (lines 306-316)
ScanJoined(joined) ==
    IF joined.raised THEN LeaveScan(Thrown(joined.exc))
    ELSE IF ~IsCompleteDefinition(joined.obj.text) THEN ContinueScan
    ELSE /\ candidates' = Append(candidates, joined.obj.text)
         /\ sources' = Append(sources,
                              [first |-> Len(man_page) - Len(man_page_lines) + 1,
                               times |-> joined.obj.times])
         /\ AppendDefinition(Definition(joined.obj.text))

\* the line after the removal of its comment (lines 278-316)
ScanStart(start, rest) ==
    IF ~IsDefinitionStart(start) THEN ContinueScan
    ELSE ScanJoined(IF engine = "SyscallDefinition"
                    THEN LegacyJoinLines(start, 0, rest)
                    ELSE JoinLines(start, 0, rest))

\* the popped line, stripped and without backspaces (lines 260-316)
ScanPopped(popped, rest) ==
    IF popped = "DESCRIPTION"
    THEN /\ definitions' = all_definitions
         /\ def_index' = 0
         /\ extracted' = heap
         /\ pc' = "filter"
         /\ UNCHANGED <<heap, all_definitions, result, candidates, sources>>
    ELSE IF Contains(popped, "Unimplemented")
         THEN LeaveScan(Returned(UNIMPLEMENTED, NoRef))
    ELSE IF StartsWith(popped, "typedef") THEN ContinueScan
    ELSE ScanStart(RemoveComment(popped), rest)

\* one pass of the loop over the lines up to DESCRIPTION (lines 251-316)
ScanLine ==
    /\ pc = "scan"
    /\ IF Len(man_page_lines) = 0
       THEN LeaveScan(Thrown(EndBeforeDescription)) /\ UNCHANGED man_page_lines
       ELSE /\ man_page_lines' = Tail(man_page_lines)
            /\ ScanPopped(char_backspace_sub(Strip(Head(man_page_lines))),
                          Tail(man_page_lines))
    /\ UNCHANGED <<pairVars, engine, syscall_name, manVars, man_page, representation, paramVars, defVars,
                   normVars>>

\* the filter loop with the index incremented also after a removal
FilterDefinitionSkipping ==
    /\ pc = "filter"
    /\ IF def_index < Len(definitions)
       THEN /\ heap' = [heap EXCEPT ![definitions[def_index + 1]].name =
                                         WithoutUnderscore(@, syscall_name)]
            /\ IF KeepsDefinition(heap'[definitions[def_index + 1]].name, syscall_name)
               THEN UNCHANGED definitions
               ELSE definitions' = SubSeq(definitions, 1, def_index)
                                   \o SubSeq(definitions, def_index + 2, Len(definitions))
            /\ def_index' = def_index + 1
            /\ pc' = "filter"
       ELSE /\ pc' = "select"
            /\ UNCHANGED <<heap, definitions, def_index>>
    /\ UNCHANGED <<pairVars, engine, syscall_name, manVars, man_page, man_page_lines, all_definitions, result,
                   candidates, sources, extracted, representation, paramVars, defVars, normVars>>

\* one pass of the loop removing the definitions of other names
\* (lines 327-341), or its end
FilterDefinition ==
    /\ pc = "filter"
    /\ IF def_index < Len(definitions)
       THEN /\ heap' = [heap EXCEPT ![definitions[def_index + 1]].name =
                                         WithoutUnderscore(@, syscall_name)]
            /\ IF KeepsDefinition(heap'[definitions[def_index + 1]].name, syscall_name)
               THEN def_index' = def_index + 1 /\ UNCHANGED definitions
               ELSE /\ definitions' = SubSeq(definitions, 1, def_index)
                                      \o SubSeq(definitions, def_index + 2, Len(definitions))
                    /\ UNCHANGED def_index
            /\ pc' = "filter"
       ELSE /\ pc' = "select"
            /\ UNCHANGED <<heap, definitions, def_index>>
    /\ UNCHANGED <<pairVars, engine, syscall_name, manVars, man_page, man_page_lines, all_definitions, result,
                   candidates, sources, extracted, representation, paramVars, defVars, normVars>>

\* the choice among the definitions that are left (lines 343-394)
SelectDefinition ==
    /\ pc = "select"
    /\ result' = IF engine = "SyscallDefinition"
                  THEN LegacyChooseDefinition(definitions, heap, syscall_name)
                  ELSE ChooseDefinition(definitions, heap, syscall_name)
    /\ pc' = "done"
    /\ UNCHANGED <<pairVars, engine, syscall_name, manVars, man_page, man_page_lines, heap, all_definitions,
                   definitions, def_index, candidates, sources, extracted, representation, paramVars,
                   defVars, normVars>>

(***************************************************************************)
(* The variables an operation does not use keep these values.              *)
(***************************************************************************)

\* _parse_definition has neither returned nor raised
Pending == [raised |-> FALSE, exc |-> None, type |-> 0, definition |-> NoRef]

ParamIdle == parameter_string = None /\ parameter = None

DefIdle == definition_line = None /\ definition = None

NormIdle == raw_line = None /\ line = None

\* no caller makes two lookups
PairIdle == lookups = <<>> /\ running = 0 /\ suspended = <<>> /\ alone = <<>>

LookupIdle ==
    /\ syscall_name = None
    /\ engine = None
    /\ manual = <<>>
    /\ requested = <<>>
    /\ candidates = <<>>
    /\ sources = <<>>
    /\ PairIdle
    /\ man_page = <<>>
    /\ man_page_lines = <<>>
    /\ heap = <<>>
    /\ all_definitions = <<>>
    /\ definitions = <<>>
    /\ def_index = -1
    /\ result = Pending
    /\ extracted = <<>>

(***************************************************************************)
(* The parameter tokenizer on its own: a fragment is tokenized, and the    *)
(* descriptor, when one was built, is serialized.                          *)
(***************************************************************************)

\* longest run of leading tokens put in front of a base type
MaxQual == 2

\* the tokens that may stand in front of the base type
LeadTokens == {"const", "unsigned", "struct", "union", "enum", "long"}

\* the texts made of at most n leading tokens, each followed by one space
RECURSIVE LeadTexts(_)
LeadTexts(n) ==
    IF n = 0 THEN {""}
    ELSE LeadTexts(n - 1) \cup {t \o " " \o r : t \in LeadTokens, r \in LeadTexts(n - 1)}

\* the fragments the tokenizer is run on
Fragments ==
    {q \o "int " \o c \o n : q \in LeadTexts(MaxQual), c \in {"", "*const "},
                             n \in {"x", "*x", "x[]", "*x[]"}}
    \cup {"...", "int (*fn)(void)", "int (*fn)(void *)", "x", "", "foo)", "int  x",
          "int\tx", "struct *const x", "int fn()"}
    \cup {q \o "int (*fn)(void)" : q \in LeadTexts(MaxQual)}
    \cup {"void (*f)(int (*g)(void))", "int  (*fn)(void)", " (*fn)(void)",
          "char *const (*fn)(void)", "int (*a[])(void)", "int ...", " ...", ")",
          "int *const *const x", "*const x", "int * x"}

InitParam ==
    /\ pc = "param"
    /\ parameter_string \in Fragments
    /\ parameter = None
    /\ representation = None
    /\ DefIdle
    /\ NormIdle
    /\ LookupIdle

\* parameter = SyscallParameter(parameter_string)
NewSyscallParameter ==
    /\ pc = "param"
    /\ parameter' = SyscallParameter(parameter_string)
    /\ pc' = IF parameter'.raised THEN "param_raised" ELSE "param_built"
    /\ UNCHANGED <<parameter_string, representation, defVars, normVars, lookupVars>>

\* representation = str(parameter)
StrSyscallParameter ==
    /\ pc = "param_built"
    /\ representation' = SyscallParameter_str(parameter.obj)
    /\ pc' = "param_str"
    /\ UNCHANGED <<paramVars, defVars, normVars, lookupVars>>

NextParam == NewSyscallParameter \/ StrSyscallParameter

SpecParam == InitParam /\ [][NextParam]_vars

\* C1: every fragment the tokenizer accepts is reproduced exactly by the
\* serialization of the descriptor built from it.
C1_ParameterRoundTrip ==
    pc = "param_str" => representation = parameter_string

\* the fragment ends with ")" and contains " (*"
IsFunctionPointerFragment(s) == EndsWith(s, ")") /\ Contains(s, " (*")

\* the text of the fragment before its first " (*"
BeforeFunctionName(s) == SliceTo(s, Find(s, " (*"))

\* the text of the fragment from the "(*" of its first " (*" to its end
FunctionName(s) == SliceFrom(s, Find(s, " (*") + 1)

\* C17 as stated: for every fragment that ends with ")" and contains " (*",
\* the tokenizer gives a descriptor that is a function pointer, whose base
\* type is the text before the first " (*", whose name is the text from "(*"
\* to the end, and that is neither a pointer nor an array.
C17_FunctionPointerFragment ==
    (pc # "param" /\ IsFunctionPointerFragment(parameter_string))
        => /\ ~parameter.raised
           /\ parameter.obj.function
           /\ parameter.obj.type = Strip(BeforeFunctionName(parameter_string))
           /\ parameter.obj.name = FunctionName(parameter_string)
           /\ ~parameter.obj.pointer
           /\ ~parameter.obj.array

\* C17 amended: for every fragment that ends with ")" and contains " (*",
\* the tokenizer accepts the fragment when the text before the first " (*"
\* is at most one token, and that text is then the base type; every such
\* fragment the tokenizer accepts gives a descriptor that is a function
\* pointer, whose name is the text from "(*" to the end, that is neither a
\* pointer nor an array, and whose base type is one of the tokens of the
\* text before the first " (*" when there are several.
C17_FunctionPointerSingleType ==
    (pc # "param" /\ IsFunctionPointerFragment(parameter_string))
        => /\ Len(Split(BeforeFunctionName(parameter_string))) <= 1
                => /\ ~parameter.raised
                   /\ parameter.obj.type = Strip(BeforeFunctionName(parameter_string))
           /\ ~parameter.raised
                => /\ parameter.obj.function
                   /\ parameter.obj.name = FunctionName(parameter_string)
                   /\ ~parameter.obj.pointer
                   /\ ~parameter.obj.array
                   /\ Len(Split(BeforeFunctionName(parameter_string))) > 1
                        => \E i \in 1..Len(Split(BeforeFunctionName(parameter_string))) :
                             parameter.obj.type
                               = Split(BeforeFunctionName(parameter_string))[i]

\* a function-pointer fragment with a parameter that is itself a function
\* pointer was tokenized
C17_Witness ==
    /\ pc = "param_built"
    /\ IsFunctionPointerFragment(parameter_string)
    /\ Cardinality(Occurrences(parameter_string, " (*")) > 1
    /\ parameter.obj.function
    /\ parameter.obj.type = "void"

\* C18: for every fragment the tokenizer accepts, the descriptor is the
\* ellipsis exactly when the fragment is "...", its type and its name are
\* both None exactly in that case, and every other flag of the descriptor of
\* "..." is false.
C18_VariadicMarker ==
    pc \in {"param_built", "param_str"}
        => /\ parameter.obj.ellipsis <=> parameter_string = "..."
           /\ (parameter.obj.type = None /\ parameter.obj.name = None)
                <=> parameter_string = "..."
           /\ parameter.obj.type = None <=> parameter.obj.name = None
           /\ parameter_string = "..."
                => parameter.obj = [NewParameter EXCEPT !.ellipsis = TRUE]

\* the fragment "..." was tokenized
C18_Witness ==
    /\ pc = "param_built"
    /\ parameter_string = "..."
    /\ parameter.obj.ellipsis
    /\ parameter.obj.type = None
    /\ parameter.obj.name = None

\* the tokens that the loop over the type turns into flags
Qualifiers == {"unsigned", "const", "struct", "union", "enum"}

\* what the claim says of the tokens of a type text: the base type that is
\* left (as a sequence of at most one token), or <<"rejected", ...>>
RECURSIVE PeeledTokens(_)
PeeledTokens(tokens) ==
    IF Len(tokens) <= 1 THEN tokens
    ELSE IF Head(tokens) \in Qualifiers THEN PeeledTokens(Tail(tokens))
    ELSE IF Tail(tokens) = <<"*const">> THEN <<Head(tokens)>>
    ELSE <<"rejected", "rejected">>

\* the same, telling whether the pointer was found constant
RECURSIVE PeelsConstPointer(_)
PeelsConstPointer(tokens) ==
    IF Len(tokens) <= 1 THEN FALSE
    ELSE IF Head(tokens) \in Qualifiers THEN PeelsConstPointer(Tail(tokens))
    ELSE Tail(tokens) = <<"*const">>

\* the fragment has a type text and a name
HasTypeAndName(s) == s # "..." /\ Len(TypeAndName(s)) = 2

\* the tokens of the type text of the fragment
TypeTokens(s) == Split(TypeAndName(s)[1])

\* C23 as stated: of a fragment that has a type text and a name, the type
\* text is peeled token by token: a leading unsigned, const, struct, union or
\* enum is removed; another leading token followed by more text is the base
\* type, with const_pointer set, when that text is exactly *const, and makes
\* the tokenizer raise the Exception of line 151 otherwise; and the base type
\* of an accepted fragment is a single token without whitespace.
C23_QualifierPeeling ==
    (pc # "param" /\ HasTypeAndName(parameter_string))
        => /\ parameter.raised <=> Len(PeeledTokens(TypeTokens(parameter_string))) = 2
           /\ parameter.raised => parameter.exc = UnexpectedPart
           /\ ~parameter.raised
                => /\ Split(parameter.obj.type) = PeeledTokens(TypeTokens(parameter_string))
                   /\ parameter.obj.const_pointer
                        <=> PeelsConstPointer(TypeTokens(parameter_string))
                   /\ Split(parameter.obj.type) = <<parameter.obj.type>>

(***************************************************************************)
(* The declaration parser on its own: a candidate line is parsed, and the  *)
(* declaration, when one was built, is serialized.                         *)
(***************************************************************************)

\* most parameters written in a candidate line
MaxParams == 2

\* the parameter texts candidate lines are made of
ParamTexts == {"void", "int x", "char *s", "struct t * p", "...", "long long x",
               "unsigned const int x"}

\* the parameter lists of 1..n parameter texts
RECURSIVE ParamLists(_)
ParamLists(n) ==
    IF n = 1 THEN ParamTexts
    ELSE ParamLists(n - 1) \cup {l \o ", " \o t : l \in ParamLists(n - 1), t \in ParamTexts}

\* the candidate lines the parser is run on
CandidateLines ==
    {h \o "(" \o l \o ");" : h \in {"int foo", "char *foo", "unsigned long foo", "foo"},
                             l \in ParamLists(MaxParams)}
    \cup {"int foo();", "int foo;", "int foo((int x));",
          "int f(int x, int (*fn)(void));", "int f(int (*fn)(void *), int x);",
          "char **foo(void);", "char **foo(int x);", "char * *foo(void);",
          "int *(void);"}

InitDef ==
    /\ pc = "def"
    /\ definition_line \in CandidateLines
    /\ definition = None
    /\ representation = None
    /\ ParamIdle
    /\ NormIdle
    /\ LookupIdle

\* definition = Definition(definition_line)
NewDefinition ==
    /\ pc = "def"
    /\ definition' = Definition(definition_line)
    /\ pc' = IF definition'.raised THEN "def_raised" ELSE "def_built"
    /\ UNCHANGED <<definition_line, representation, paramVars, normVars, lookupVars>>

\* representation = repr(definition)
ReprDefinition ==
    /\ pc = "def_built"
    /\ representation' = Definition_repr(definition.obj)
    /\ pc' = "def_repr"
    /\ UNCHANGED <<defVars, paramVars, normVars, lookupVars>>

NextDef == NewDefinition \/ ReprDefinition

SpecDef == InitDef /\ [][NextDef]_vars

\* C2: every candidate line the declaration parser accepts is reproduced,
\* statement terminator aside, by the serialization of the declaration.
C2_DeclarationRoundTrip ==
    pc = "def_repr" => representation \o ";" = definition_line

\* the texts between the brackets of the candidate line, split at ", "
ParameterFragments(text) == SplitOn(StripChars(SplitOn1(text, "(")[2], {"(", ")", ";"}), ", ")

\* C16 as stated: the declaration parser yields an empty parameter sequence
\* exactly when the parameter list of the candidate line is the sole fragment
\* void; the return type is then the text of the head before its last token
\* (with the star of a name that begins with one), and the name that token.
C16_VoidParameterList ==
    pc \in {"def_built", "def_repr"}
        => /\ definition.obj.parameters = <<>>
                <=> ParameterFragments(definition_line) = <<"void">>
           /\ ParameterFragments(definition_line) = <<"void">>
                => definition.obj.ret_type \o " " \o definition.obj.name
                     \in {SplitOn1(definition_line, "(")[1],
                          Replace(SplitOn1(definition_line, "(")[1], " *", "* ")}

\* the last token of the head of the candidate line, where the name stands
HeadName(text) == RSplit1(SplitOn1(text, "(")[1])[2]

\* the head of the candidate line before that token
HeadType(text) == RSplit1(SplitOn1(text, "(")[1])[1]

\* C28 as stated: the name of every declaration the parser accepts does not
\* begin with a star: the name is the last token of the head without its
\* leading stars, and the return type is the head before that token followed
\* by those stars.
C28_PointerReturnType ==
    pc \in {"def_built", "def_repr"}
        => /\ ~StartsWith(definition.obj.name, "*")
           /\ definition.obj.name = LStripChars(HeadName(definition_line), {"*"})
           /\ definition.obj.ret_type \o definition.obj.name
                = HeadType(definition_line) \o HeadName(definition_line)

(***************************************************************************)
(* The overstrike normalization on its own: the substitution is applied    *)
(* to a line, and then to its own output.                                  *)
(***************************************************************************)

\* longest line normalized
MaxLineLen == 4

\* the lines of at most n characters drawn from two letters and backspace
RECURSIVE OverstruckLines(_)
OverstruckLines(n) ==
    IF n = 0 THEN {""}
    ELSE OverstruckLines(n - 1)
         \cup {c \o l : c \in {"a", "b", BS}, l \in OverstruckLines(n - 1)}

InitNorm ==
    /\ pc = "norm"
    /\ raw_line \in OverstruckLines(MaxLineLen)
    /\ line = None
    /\ representation = None
    /\ ParamIdle
    /\ DefIdle
    /\ LookupIdle

\* line = char_backspace.sub("", raw_line)
Normalize ==
    /\ pc = "norm"
    /\ line' = char_backspace_sub(raw_line)
    /\ pc' = "normalized"
    /\ UNCHANGED <<raw_line, representation, paramVars, defVars, lookupVars>>

\* the substitution applied to the normalized line
NormalizeAgain ==
    /\ pc = "normalized"
    /\ representation' = char_backspace_sub(line)
    /\ pc' = "renormalized"
    /\ UNCHANGED <<normVars, paramVars, defVars, lookupVars>>

NextNorm == Normalize \/ NormalizeAgain

SpecNorm == InitNorm /\ [][NextNorm]_vars

\* C3: normalizing a normalized line changes nothing: one normalization
\* leaves no character followed by a backspace.
C3_NormalizeIdempotent ==
    pc = "renormalized" => representation = line

(***************************************************************************)
(* The removal of comments on its own: the comment is removed from a line  *)
(* made of comment marks, letters and spaces.                              *)
(***************************************************************************)

\* most pieces of a line
MaxPieces == 4

\* the lines of at most n pieces
RECURSIVE CommentedLines(_)
CommentedLines(n) ==
    IF n = 0 THEN {""}
    ELSE CommentedLines(n - 1)
         \cup {c \o l : c \in {"/*", "*/", "a", " "}, l \in CommentedLines(n - 1)}

InitComment ==
    /\ pc = "comment"
    /\ raw_line \in CommentedLines(MaxPieces)
    /\ line = None
    /\ representation = None
    /\ ParamIdle
    /\ DefIdle
    /\ LookupIdle

\* the comment is removed from the line (lines 274-276)
StripComment ==
    /\ pc = "comment"
    /\ line' = RemoveComment(raw_line)
    /\ pc' = "uncommented"
    /\ UNCHANGED <<raw_line, representation, paramVars, defVars, lookupVars>>

NextComment == StripComment

SpecComment == InitComment /\ [][NextComment]_vars

\* the characters of s from position i on are, in their order, among the
\* characters of t from position j on
RECURSIVE IsSubsequenceFrom(_, _, _, _)
IsSubsequenceFrom(s, i, t, j) ==
    IF i > Len(s) THEN TRUE
    ELSE IF j > Len(t) THEN FALSE
    ELSE IF Char(s, i) = Char(t, j) THEN IsSubsequenceFrom(s, i + 1, t, j + 1)
    ELSE IsSubsequenceFrom(s, i, t, j + 1)

\* C29 as stated: of a line that contains both comment marks, in either
\* order, the line without its comment is no longer than the line and its
\* characters are a subsequence of the characters of the line.
C29_CommentStrippingRemoves ==
    (pc = "uncommented" /\ Contains(raw_line, "/*") /\ Contains(raw_line, "*/"))
        => /\ Len(line) <= Len(raw_line)
           /\ IsSubsequenceFrom(line, 1, raw_line, 1)

(***************************************************************************)
(* The lookup: _parse_definition run on a manual page held in memory.      *)
(***************************************************************************)

\* most lines between the SYNOPSIS line and the DESCRIPTION line
MaxBody == 3

\* the names looked up
QueriedNames == {"eventfd", "eventfd2"}

\* the lines a synopsis is made of
SynopsisLines ==
    {"  int eventfd(unsigned int initval);",
     "  int eventfd(unsigned int initval, int flags);",
     "  int eventfd2(unsigned int initval, int flags);",
     "  int event(void);",
     "  void _eventfd(int status);",
     "  void __eventfd(int status);",
     "  int fchown(int fd, uid_t owner, gid_t group);",
     "  int creat(long long mode);",
     "  creat(int mode);",
     "  #include <sys/eventfd.h>",
     "  Unimplemented system calls."}

\* the synopses of at most n lines
RECURSIVE Bodies(_)
Bodies(n) ==
    IF n = 0 THEN {<<>>}
    ELSE Bodies(n - 1) \cup {<<l>> \o b : l \in SynopsisLines, b \in Bodies(n - 1)}

\* the manual pages looked into
ManualPages ==
    {<<"EVENTFD(2)", "SYNOPSIS">> \o b \o <<"DESCRIPTION", "  eventfd() creates an object">> :
        b \in Bodies(MaxBody)}

Init ==
    /\ pc = "synopsis"
    /\ syscall_name \in QueriedNames
    /\ man_page \in ManualPages
    /\ man_page_lines = man_page
    /\ manual = [n \in {syscall_name} |-> Answered(man_page)]
    /\ requested = <<syscall_name>>
    /\ engine = "SyscallManual"
    /\ PairIdle
    /\ candidates = <<>>
    /\ sources = <<>>
    /\ heap = <<>>
    /\ all_definitions = <<>>
    /\ definitions = <<>>
    /\ def_index = -1
    /\ result = Pending
    /\ extracted = <<>>
    /\ representation = None
    /\ ParamIdle
    /\ DefIdle
    /\ NormIdle

Next == FindSynopsis \/ ScanLine \/ FilterDefinition \/ SelectDefinition

Spec == Init /\ [][Next]_vars

(***************************************************************************)
(* The lookup from its first step: `man 2` is run for the name, and again  *)
(* for the shortened name when the page came out empty, and the page that  *)
(* was read is searched.  The pages are any lines in any order, so that    *)
(* the SYNOPSIS line, the DESCRIPTION line or the end of a declaration may *)
(* be missing.                                                             *)
(***************************************************************************)

\* most lines of a manual page
MaxPage == 4

\* the lines a manual page is made of
PageLines ==
    {"SYNOPSIS",
     "S" \o BS \o "SYNOPSIS",
     "DESCRIPTION",
     "  int foo(int x);",
     "  int foo(int x,",
     "  int y);",
     "  int foo((int x);",
     "  int foo(unsigned const int x);"}

\* the manual pages of exactly n lines
RECURSIVE PagesOf(_)
PagesOf(n) ==
    IF n = 0 THEN {<<>>} ELSE {<<l>> \o p : l \in PageLines, p \in PagesOf(n - 1)}

\* manual pages with a declaration written on several lines
JoinedPages ==
    {<<"SYNOPSIS", "  int foo(int x,", "  int y,", "  int z);", "DESCRIPTION">>,
     <<"SYNOPSIS", "  int foo(int x,", "  int y,", "  int z,", "  int w);", "DESCRIPTION">>,
     <<"SYNOPSIS", "  int foo(int x,", "  int y,", "  int z,", "  int w,", "  int v);",
       "DESCRIPTION">>,
     <<"SYNOPSIS", "  int foo(int x, /* first */", "  int y);", "DESCRIPTION">>,
     <<"SYNOPSIS", "  int foo(int x,", "  int y", "  int z", "  int w">>,
     <<"SYNOPSIS", "  int foo(int x, unsigned const int y);", "DESCRIPTION">>,
     <<"SYNOPSIS", "  int foo(long long x, unsigned const int y);", "DESCRIPTION">>,
     <<"SYNOPSIS", "  int foo(void, unsigned const int y);", "DESCRIPTION">>,
     <<"SYNOPSIS", "  int foo(", "  struct bar(int y);", "DESCRIPTION">>,
     <<"SYNOPSIS", "  int foo(int x,", "  int (*fn)(void));", "DESCRIPTION">>}

\* what `man 2 foo` may answer
FooAnswers ==
    {ManFails, Answered(EmptyText)}
        \cup {Answered(p) : p \in UNION {PagesOf(n) : n \in 1..MaxPage}}
        \cup {Answered(p) : p \in JoinedPages}

\* what `man 2 foo32` may answer
Foo32Answers ==
    {ManFails,
     Answered(EmptyText),
     Answered(<<"SYNOPSIS", "  int foo32(int x);", "DESCRIPTION">>),
     Answered(<<"NAME", "  foo32 - no synopsis">>)}

\* what `man 2 foo` may answer when it is run for foo32
RetryAnswers ==
    {ManFails,
     Answered(EmptyText),
     Answered(<<"SYNOPSIS", "  int foo(int x);", "DESCRIPTION">>),
     Answered(<<"SYNOPSIS", "  int foo(int x);", "  int foo32(int x, int y);", "DESCRIPTION">>),
     Answered(<<"SYNOPSIS", "  int fo(int x);", "DESCRIPTION">>),
     Answered(<<"NAME", "  foo - no synopsis">>)}

\* the manual as the lookup of one name finds it
Manuals ==
    {[n \in {"foo"} |-> a] : a \in FooAnswers}
        \cup {[n \in {"foo32", "foo"} |-> IF n = "foo32" THEN a[1] ELSE a[2]] :
                a \in Foo32Answers \X RetryAnswers}

InitMan ==
    /\ pc = "man"
    /\ manual \in Manuals
    /\ syscall_name = IF "foo32" \in DOMAIN manual THEN "foo32" ELSE "foo"
    /\ requested = <<>>
    /\ engine = "SyscallManual"
    /\ PairIdle
    /\ man_page = <<>>
    /\ man_page_lines = <<>>
    /\ candidates = <<>>
    /\ sources = <<>>
    /\ heap = <<>>
    /\ all_definitions = <<>>
    /\ definitions = <<>>
    /\ def_index = -1
    /\ result = Pending
    /\ extracted = <<>>
    /\ representation = None
    /\ ParamIdle
    /\ DefIdle
    /\ NormIdle

NextMan ==
    \/ ReadManPage
    \/ RetryManPage
    \/ FindSynopsis
    \/ ScanLine
    \/ FilterDefinition
    \/ SelectDefinition

SpecMan == InitMan /\ [][NextMan]_vars

(***************************************************************************)
(* Several lookups made by one caller.  What a call of _parse_definition   *)
(* works on is its arguments and its local variables (lines 128-394), and  *)
(* the Definition objects it creates; the module and the class hold        *)
(* constants only.  A lookup is given by the queried name, by what man     *)
(* answers to it, and by the variant of the engine that runs it.           *)
(***************************************************************************)

\* the arguments and local variables of the call that is running
Frame ==
    [pc |-> pc, syscall_name |-> syscall_name, manual |-> manual, requested |-> requested,
     man_page |-> man_page, man_page_lines |-> man_page_lines,
     all_definitions |-> all_definitions, definitions |-> definitions,
     def_index |-> def_index, result |-> result, candidates |-> candidates,
     sources |-> sources, extracted |-> extracted, engine |-> engine]

\* the call of a lookup whose list of definitions is the list that the call
\* before it has left
NewFrameKeeping(l) ==
    [pc |-> "man", syscall_name |-> l.name, manual |-> l.manual, requested |-> <<>>,
     man_page |-> <<>>, man_page_lines |-> <<>>,
     all_definitions |-> all_definitions, definitions |-> <<>>,
     def_index |-> -1, result |-> Pending, candidates |-> <<>>,
     sources |-> <<>>, extracted |-> <<>>, engine |-> l.engine]

\* the call of a lookup before its first step (lines 101-128): nothing of an
\* earlier call is in it
NewFrame(l) ==
    [pc |-> "man", syscall_name |-> l.name, manual |-> l.manual, requested |-> <<>>,
     man_page |-> <<>>, man_page_lines |-> <<>>,
     all_definitions |-> <<>>, definitions |-> <<>>,
     def_index |-> -1, result |-> Pending, candidates |-> <<>>,
     sources |-> <<>>, extracted |-> <<>>, engine |-> l.engine]

\* the call f goes on, the lines left of the page being those of the call
\* that ran before it
ResumeSharingLines(f) ==
    /\ pc' = f.pc
    /\ syscall_name' = f.syscall_name
    /\ manual' = f.manual
    /\ requested' = f.requested
    /\ man_page' = f.man_page
    /\ UNCHANGED man_page_lines
    /\ all_definitions' = f.all_definitions
    /\ definitions' = f.definitions
    /\ def_index' = f.def_index
    /\ result' = f.result
    /\ candidates' = f.candidates
    /\ sources' = f.sources
    /\ extracted' = f.extracted
    /\ engine' = f.engine

\* the call f is the one that runs
Resume(f) ==
    /\ pc' = f.pc
    /\ syscall_name' = f.syscall_name
    /\ manual' = f.manual
    /\ requested' = f.requested
    /\ man_page' = f.man_page
    /\ man_page_lines' = f.man_page_lines
    /\ all_definitions' = f.all_definitions
    /\ definitions' = f.definitions
    /\ def_index' = f.def_index
    /\ result' = f.result
    /\ candidates' = f.candidates
    /\ sources' = f.sources
    /\ extracted' = f.extracted
    /\ engine' = f.engine

\* what a call ended in (lines 101-125): the exception, or the type and the
\* declaration, the latter by value
OutcomeOf(res) ==
    [raised |-> res.raised, exc |-> res.exc, type |-> res.type,
     declaration |-> IF res.definition = NoRef THEN <<>> ELSE <<heap[res.definition]>>]

\* the lookup that ran alone is over and the next one runs alone
NextAlone ==
    /\ pc = "done"
    /\ running = Len(alone) + 1
    /\ running < Len(lookups)
    /\ alone' = Append(alone, OutcomeOf(result))
    /\ running' = running + 1
    /\ Resume(NewFrame(lookups[running + 1]))
    /\ UNCHANGED <<lookups, suspended, heap, representation, paramVars, defVars, normVars>>

\* the last lookup that ran alone is over; the two lookups are made again,
\* each in a task of its own, the first task running
StartTogether ==
    /\ pc = "done"
    /\ running = Len(alone) + 1
    /\ running = Len(lookups)
    /\ alone' = Append(alone, OutcomeOf(result))
    /\ running' = 1
    /\ Resume(NewFrame(lookups[1]))
    /\ suspended' = <<NewFrame(lookups[2])>>
    /\ UNCHANGED <<lookups, heap, representation, paramVars, defVars, normVars>>

\* the task that runs is suspended between two of its steps and the other
\* task, which is not over, goes on
Switch ==
    /\ Len(alone) = Len(lookups)
    /\ suspended # <<>>
    /\ suspended[1].pc # "done"
    /\ suspended' = <<Frame>>
    /\ running' = 3 - running
    /\ Resume(suspended[1])
    /\ UNCHANGED <<lookups, alone, heap, representation, paramVars, defVars, normVars>>

(***************************************************************************)
(* Two lookups, each made alone and then both made with their steps        *)
(* interleaved.                                                            *)
(***************************************************************************)

\* longest synopsis of the pages
MaxPairBody == 1

\* lines of the synopsis
PairLines ==
    {"  int foo(int x);",
     "  int foo32(int x, int y);",
     "  void _foo(void);"}

\* the synopses of at most n lines
RECURSIVE PairBodies(_)
PairBodies(n) ==
    IF n = 0 THEN {<<>>}
    ELSE PairBodies(n - 1) \cup {<<l>> \o b : l \in PairLines, b \in PairBodies(n - 1)}

\* what `man 2 foo` may answer
PairAnswers ==
    {ManFails, Answered(EmptyText)}
        \cup {Answered(<<"SYNOPSIS">> \o b \o <<"DESCRIPTION">>) : b \in PairBodies(MaxPairBody)}

\* the lookups: of foo; of foo32 whose page is empty; of foo32 that has a page
PairLookups ==
    {[name |-> "foo", engine |-> "SyscallManual",
      manual |-> [n \in {"foo", "foo32"} |-> IF n = "foo" THEN a ELSE ManFails]] :
        a \in PairAnswers}
    \cup {[name |-> "foo32", engine |-> "SyscallManual",
           manual |-> [n \in {"foo", "foo32"} |->
                          IF n = "foo" THEN a ELSE Answered(EmptyText)]] :
             a \in PairAnswers}
    \cup {[name |-> "foo32", engine |-> "SyscallManual",
           manual |-> [n \in {"foo", "foo32"} |->
                          IF n = "foo" THEN ManFails
                          ELSE Answered(<<"SYNOPSIS", "  int foo32(int x, int y);",
                                          "DESCRIPTION">>)]]}

\* the first lookup is about to run alone
InitStarted ==
    /\ running = 1
    /\ suspended = <<>>
    /\ alone = <<>>
    /\ pc = "man"
    /\ syscall_name = lookups[1].name
    /\ manual = lookups[1].manual
    /\ engine = lookups[1].engine
    /\ requested = <<>>
    /\ man_page = <<>>
    /\ man_page_lines = <<>>
    /\ candidates = <<>>
    /\ sources = <<>>
    /\ heap = <<>>
    /\ all_definitions = <<>>
    /\ definitions = <<>>
    /\ def_index = -1
    /\ result = Pending
    /\ extracted = <<>>
    /\ representation = None
    /\ ParamIdle
    /\ DefIdle
    /\ NormIdle

InitPair ==
    /\ lookups \in PairLookups \X PairLookups
    /\ InitStarted

NextPair ==
    \/ ReadManPage
    \/ RetryManPage
    \/ FindSynopsis
    \/ ScanLine
    \/ FilterDefinition
    \/ SelectDefinition
    \/ NextAlone
    \/ StartTogether
    \/ Switch

SpecPair == InitPair /\ [][NextPair]_vars

(***************************************************************************)
(* One lookup made by SyscallManual and then by SyscallDefinition.         *)
(***************************************************************************)

\* longest synopsis of the pages
MaxBothBody == 2

\* lines of the synopsis, none with a backspace
BothLines ==
    {"  int eventfd(unsigned int initval);",
     "  int eventfd(unsigned int initval, int flags);",
     "  int eventfd2(unsigned int initval, int flags);",
     "  int event(void);",
     "  void _eventfd(int status);",
     "  int eventfd(unsigned int initval,",
     "  int flags);"}

\* the synopses of at most n lines
RECURSIVE BothBodies(_)
BothBodies(n) ==
    IF n = 0 THEN {<<>>}
    ELSE BothBodies(n - 1) \cup {<<l>> \o b : l \in BothLines, b \in BothBodies(n - 1)}

\* the manual pages
BothPages ==
    {<<"EVENTFD(2)", "SYNOPSIS">> \o b \o <<"DESCRIPTION", "  eventfd() creates an object">> :
        b \in BothBodies(MaxBothBody)}

\* the same name and page for the two variants of the engine
BothLookups ==
    {<<[name |-> n, engine |-> "SyscallManual", manual |-> [m \in {n} |-> Answered(p)]],
       [name |-> n, engine |-> "SyscallDefinition", manual |-> [m \in {n} |-> Answered(p)]]>> :
        n \in QueriedNames, p \in BothPages}

InitBoth ==
    /\ lookups \in BothLookups
    /\ InitStarted

NextBoth ==
    \/ ReadManPage
    \/ RetryManPage
    \/ FindSynopsis
    \/ ScanLine
    \/ FilterDefinition
    \/ SelectDefinition
    \/ NextAlone

SpecBoth == InitBoth /\ [][NextBoth]_vars

(***************************************************************************)
(* Vocabulary of the properties of the lookup                              *)
(***************************************************************************)

\* p is a prefix of s
IsPrefixOf(p, s) == \E n \in 0..Len(s) : SubSeq(s, 1, n) = p

\* name without its trailing decimal digits
RECURSIVE WithoutTrailingDigits(_)
WithoutTrailingDigits(name) ==
    IF Len(name) > 0 /\ Char(name, Len(name)) \in Digits
    THEN WithoutTrailingDigits(SubSeq(name, 1, Len(name) - 1))
    ELSE name

\* the name of a declaration after the underscore normalization: a leading
\* underscore goes when the rest of the name is a prefix of the queried name
NormalizedName(name, queried) ==
    IF Len(name) > 0 /\ Char(name, 1) = "_" /\ IsPrefixOf(Tail(name), queried)
    THEN Tail(name) ELSE name

\* the elements of a sequence
Range(seq) == {seq[i] : i \in 1..Len(seq)}

\* the line is the given marker once stripped and normalized
IsMarker(l, marker) == char_backspace_sub(Strip(l)) = marker

\* positions of the lines of the synopsis region of a page: after the first
\* SYNOPSIS line and before the first DESCRIPTION line that follows it
SynopsisRegion(page) ==
    {k \in 1..Len(page) :
        \E i \in 1..(k - 1), j \in (k + 1)..Len(page) :
            /\ char_backspace_sub(page[i]) = "SYNOPSIS"
            /\ \A h \in 1..(i - 1) : char_backspace_sub(page[h]) # "SYNOPSIS"
            /\ IsMarker(page[j], "DESCRIPTION")
            /\ \A h \in (i + 1)..k : ~IsMarker(page[h], "DESCRIPTION")}

\* the lookup went through the scan and the filter and has chosen
Selected == pc = "done" /\ def_index >= 0

\* the declarations left by the filter whose name is the queried name
ExactDefinitions == {r \in Range(definitions) : heap[r].name = syscall_name}

\* the declarations left by the filter whose name, trailing digits aside, is
\* the queried name, trailing digits aside
DigitStrippedDefinitions ==
    {r \in Range(definitions) :
        WithoutTrailingDigits(heap[r].name) = WithoutTrailingDigits(syscall_name)}

\* the extracted declarations whose normalized name is a prefix of the
\* queried name
IsMatching(r) == IsPrefixOf(NormalizedName(extracted[r].name, syscall_name), syscall_name)

MatchingDefinitions == {r \in 1..Len(extracted) : IsMatching(r)}

\* number of parameters of the declaration r refers to
ParameterCount(r) == Len(heap[r].parameters)

(***************************************************************************)
(* Properties of the lookup                                                *)
(***************************************************************************)

\* C4: a page whose synopsis region has a line containing "Unimplemented"
\* is looked up with the outcome UNIMPLEMENTED, whatever else the region holds.
C4_UnimplementedShortCircuit ==
    (pc = "done" /\ \E k \in SynopsisRegion(man_page) : Contains(man_page[k], "Unimplemented"))
        => result = Returned(UNIMPLEMENTED, NoRef)

\* C5: a candidate the declaration parser rejects (ValueError for the head,
\* ValueError or Exception for a parameter) is discarded: on a page with both
\* markers no such exception leaves the scan.
C5_RejectedCandidateDiscarded ==
    (pc = "done" /\ result.raised /\ def_index < 0)
        => result.exc \notin {"ValueError", UnexpectedPart}

\* C6: with two or more declarations left by the filter and one of them named
\* as queried, the outcome is FOUND with the declaration of that name that has
\* the most parameters, the first in the page among those with as many.
C6_ExactMatchPrecedence ==
    (Selected /\ Len(definitions) >= 2 /\ ExactDefinitions # {})
        => /\ ~result.raised
           /\ result.type = FOUND
           /\ result.definition \in ExactDefinitions
           /\ \A r \in ExactDefinitions :
                 /\ ParameterCount(r) <= ParameterCount(result.definition)
                 /\ ParameterCount(r) = ParameterCount(result.definition)
                       => result.definition <= r

\* C6 happens: the declaration found comes after one of the same name with
\* fewer parameters and before one of the same name with as many.
C6_Witness ==
    /\ Selected
    /\ result.type = FOUND
    /\ \E r1, r2 \in ExactDefinitions :
          /\ r1 < result.definition
          /\ result.definition < r2
          /\ ParameterCount(r1) < ParameterCount(result.definition)
          /\ ParameterCount(r2) = ParameterCount(result.definition)

\* C7: with two or more declarations left by the filter and none named as
\* queried, those whose digit-stripped name is the digit-stripped queried name
\* decide: none gives NOT_FOUND, exactly one gives FOUND with it.
C7_DigitSuffixFallback ==
    (Selected /\ Len(definitions) >= 2 /\ ExactDefinitions = {})
        => /\ DigitStrippedDefinitions = {} => result = Returned(NOT_FOUND, NoRef)
           /\ \A r \in DigitStrippedDefinitions :
                 DigitStrippedDefinitions = {r} => result = Returned(FOUND, r)

\* C7 happens: the fallback found a declaration whose name is the queried
\* name without its digits, among several left by the filter.
C7_Witness ==
    /\ Selected
    /\ Len(definitions) >= 2
    /\ ExactDefinitions = {}
    /\ result.type = FOUND
    /\ heap[result.definition].name # syscall_name
    /\ DigitStrippedDefinitions = {result.definition}

\* C8: the name of a declaration that was found is a prefix of the queried name.
C8_PrefixInvariant ==
    (pc = "done" /\ ~result.raised /\ result.type = FOUND)
        => IsPrefixOf(heap[result.definition].name, syscall_name)

\* C8 happens: a declaration was found whose name is shorter than the queried
\* name, on a page with a declaration of a longer name.
C8_Witness ==
    /\ pc = "done"
    /\ result.type = FOUND
    /\ Len(heap[result.definition].name) < Len(syscall_name)
    /\ \E r \in 1..Len(heap) : Len(heap[r].name) > Len(syscall_name)

\* C9: when exactly one extracted declaration has a normalized name that is a
\* prefix of the queried name, the outcome is FOUND with that declaration.
C9_SingleSurvivor ==
    Selected => \A r \in MatchingDefinitions :
                   MatchingDefinitions = {r} => result = Returned(FOUND, r)

\* C9 happens: the only matching declaration, one of several extracted, was
\* found under a name that is not the queried name.
C9_Witness ==
    /\ Selected
    /\ Len(extracted) >= 2
    /\ MatchingDefinitions = {result.definition}
    /\ heap[result.definition].name # syscall_name

\* C10: the filter leaves exactly the extracted declarations whose normalized
\* name is a prefix of the queried name, in the order of the page; when it
\* leaves none the outcome is NOT_FOUND.
C10_PrefixFilter ==
    (pc \in {"select", "done"} /\ def_index >= 0)
        => /\ definitions = SelectSeq(all_definitions, IsMatching)
           /\ (pc = "done" /\ definitions = <<>>) => result = Returned(NOT_FOUND, NoRef)

\* C10 happens: the filter is done, it removed a declaration in front of one
\* it kept, and the one it kept lost its underscore.
C10_Witness ==
    /\ pc = "select"
    /\ \E i \in 1..Len(all_definitions) :
          /\ all_definitions[i] \notin Range(definitions)
          /\ \E j \in (i + 1)..Len(all_definitions) :
                /\ all_definitions[j] \in Range(definitions)
                /\ extracted[all_definitions[j]].name # heap[all_definitions[j]].name

\* the selection came to its last resort: several declarations are left by
\* the filter, none of them has the queried name, and more than one has the
\* queried name once trailing digits are set aside
AmbiguousFallback ==
    /\ Selected
    /\ Len(definitions) > 1
    /\ ExactDefinitions = {}
    /\ Cardinality(DigitStrippedDefinitions) > 1

\* C15: when more than one declaration survives the digit-stripped comparison
\* of the fallback path, the lookup ends with an AssertionError and returns
\* no outcome.
C15_AmbiguousFallbackAborts ==
    AmbiguousFallback => result = Thrown("AssertionError")

\* eventfd2 is looked up in a page that declares eventfd twice and eventfd2
\* never
C15_Witness ==
    /\ AmbiguousFallback
    /\ syscall_name = "eventfd2"
    /\ result = Thrown("AssertionError")

\* the declarations all_definitions refers to, as they are now
AllDefinitionsNow == [i \in 1..Len(all_definitions) |-> heap[all_definitions[i]]]

\* C20 as stated: once the scan is over, through the underscore step and the
\* filter and after them, all_definitions holds the declarations it held when
\* the scan ended, in the same order, with the same names, return types and
\* parameters.
C20_AllDefinitionsIntact ==
    def_index >= 0 => AllDefinitionsNow = extracted

(***************************************************************************)
(* Properties of the lookup from its first step                            *)
(***************************************************************************)

\* some line of the page is the SYNOPSIS line once its overstrikes are removed
HasSynopsis(page) == \E i \in 1..Len(page) : char_backspace_sub(page[i]) = "SYNOPSIS"

\* the lookup read a manual page (the last one it read is man_page)
PageRead == pc = "done" /\ man_page # <<>>

\* C11 as stated: whenever the manual page that was read has no line equal to
\* SYNOPSIS after overstrike normalization, the lookup ends with the
\* end-of-page exception of the SYNOPSIS search, and returns no outcome.
C11_MissingStartMarker ==
    (PageRead /\ ~HasSynopsis(man_page)) => result = Thrown(EndBeforeSynopsis)

\* the lookup ended on line 210 or 216: the page was empty and either the
\* name has no 32 or 64 at its end or the second reading failed
EndedOnEmptyPage ==
    /\ pc = "done"
    /\ man_page = EmptyText
    /\ ~EndsWith32Or64(syscall_name) \/ manual[SliceTo(syscall_name, -2)].failed

\* C11 amended: whenever the manual page that was read has no line equal to
\* SYNOPSIS after overstrike normalization, and the lookup did not end on the
\* empty first page (which is answered as a missing manual entry), the lookup
\* ends with the end-of-page exception of the SYNOPSIS search, and returns no
\* outcome.
C11_MissingStartMarkerRead ==
    (PageRead /\ ~HasSynopsis(man_page) /\ ~EndedOnEmptyPage)
        => result = Thrown(EndBeforeSynopsis)

\* a page of several lines, none of them SYNOPSIS, one of them a declaration,
\* was read to its end
C11_Witness ==
    /\ PageRead
    /\ ~HasSynopsis(man_page)
    /\ Len(man_page) > 1
    /\ \E i \in 1..Len(man_page) : IsCompleteDefinition(Strip(man_page[i]))
    /\ result = Thrown(EndBeforeSynopsis)

\* position of the first SYNOPSIS line of a page (0 when there is none)
RECURSIVE SynopsisAt(_, _)
SynopsisAt(page, i) ==
    IF i > Len(page) THEN 0
    ELSE IF char_backspace_sub(page[i]) = "SYNOPSIS" THEN i
    ELSE SynopsisAt(page, i + 1)

\* the page has a SYNOPSIS line, after which no line is the DESCRIPTION line
\* and no line contains Unimplemented
EndMarkerMissing(page) ==
    /\ HasSynopsis(page)
    /\ \A j \in (SynopsisAt(page, 1) + 1)..Len(page) :
          /\ ~IsMarker(page[j], "DESCRIPTION")
          /\ ~Contains(char_backspace_sub(Strip(page[j])), "Unimplemented")

\* C12 as stated: whenever the manual page that was read has a SYNOPSIS line,
\* no DESCRIPTION line after it and no line containing Unimplemented after it,
\* the lookup ends with the end-of-page exception of the scan loop, whatever
\* the lines after SYNOPSIS are.
C12_MissingEndMarker ==
    (PageRead /\ EndMarkerMissing(man_page)) => result = Thrown(EndBeforeDescription)

\* depth of the brackets of text from position i on, starting from depth d;
\* -1 as soon as a closing bracket has no opening bracket before it
RECURSIVE BracketDepth(_, _, _)
BracketDepth(text, i, d) ==
    IF i > Len(text) THEN d
    ELSE IF Char(text, i) = "(" THEN BracketDepth(text, i + 1, d + 1)
    ELSE IF Char(text, i) # ")" THEN BracketDepth(text, i + 1, d)
    ELSE IF d = 0 THEN -1
    ELSE BracketDepth(text, i + 1, d - 1)

\* every opening bracket is matched by a later closing bracket, and every
\* closing bracket by an earlier opening bracket
Balanced(text) == BracketDepth(text, 1, 0) = 0

\* C13 as stated: every line handed to Definition(line) ends with ";" and has
\* balanced parentheses.
C13_CandidatesBalanced ==
    \A k \in 1..Len(candidates) :
        EndsWith(candidates[k], ";") /\ Balanced(candidates[k])

\* C13 amended: every line handed to Definition(line) ends with ";", has an
\* opening parenthesis and a closing parenthesis after it, and has two or
\* more parts separated by whitespace.
C13_CandidatesTerminated ==
    \A k \in 1..Len(candidates) :
        /\ EndsWith(candidates[k], ";")
        /\ Contains(candidates[k], "(")
        /\ Find(candidates[k], "(") < RFind(candidates[k], ")")
        /\ Len(Split(candidates[k])) > 1

\* a declaration written on several lines was joined and handed over
C13_Witness ==
    /\ pc = "done"
    /\ \E k \in 1..Len(candidates) :
          /\ \A i \in 1..Len(man_page) : Strip(man_page[i]) # candidates[k]
          /\ Balanced(candidates[k])

\* the texts between the brackets of a candidate, split at ", "
RawFragments(c) == SplitOn(StripChars(SplitOn1(c, "(")[2], {"(", ")", ";"}), ", ")

\* the tokenizer accepts the cleaned fragment and the text of the descriptor
\* is the fragment
RoundTrips(raw) ==
    /\ ~SyscallParameter(CleanParameter(raw)).raised
    /\ SyscallParameter_str(SyscallParameter(CleanParameter(raw)).obj) = CleanParameter(raw)

\* the tokenizer accepts the cleaned fragment and the text of the descriptor
\* differs from the fragment
RoundTripFails(raw) ==
    /\ ~SyscallParameter(CleanParameter(raw)).raised
    /\ SyscallParameter_str(SyscallParameter(CleanParameter(raw)).obj) # CleanParameter(raw)

\* the parser of the candidate comes to a fragment that the tokenizer accepts
\* and whose descriptor has another text: the head has a return type and a
\* name, the list is not the void list, and the fragments before it pass
ReachesMismatch(c) ==
    /\ Len(SplitOn1(c, "(")) = 2
    /\ Len(RSplit1(SplitOn1(c, "(")[1])) = 2
    /\ RawFragments(c)[1] # "void"
    /\ \E i \in 1..Len(RawFragments(c)) :
          /\ RoundTripFails(RawFragments(c)[i])
          /\ \A j \in 1..(i - 1) : RoundTrips(RawFragments(c)[j])

\* C14: when the parser of a candidate comes to a fragment that the tokenizer
\* accepts and whose descriptor serializes to another text, the lookup ends
\* there with an AssertionError: it returns no outcome, the candidate is not
\* added to all_definitions, and no later line is scanned.
C14_RoundTripSelfCheck ==
    \A k \in 1..Len(candidates) :
        ReachesMismatch(candidates[k])
            => /\ k = Len(candidates)
               /\ pc = "done"
               /\ result = Thrown("AssertionError")
               /\ Len(all_definitions) = k - 1
               /\ Len(heap) = k - 1

\* a candidate after the first one fails the self-check, and the lookup ends
\* with lines of the page left unread
C14_Witness ==
    /\ pc = "done"
    /\ result = Thrown("AssertionError")
    /\ Len(candidates) > 1
    /\ ReachesMismatch(candidates[Len(candidates)])
    /\ man_page_lines # <<>>

\* the queried name without its last two characters
ShortenedName == SliceTo(syscall_name, -2)

\* the first reading of the manual page gives the empty text
FirstPageEmpty == ~manual[syscall_name].failed /\ manual[syscall_name].lines = EmptyText

\* the first reading fails, or the second reading is made and fails
RetrievalFails ==
    \/ manual[syscall_name].failed
    \/ FirstPageEmpty /\ EndsWith32Or64(syscall_name) /\ manual[ShortenedName].failed

\* C19: the lookup returns NO_MAN_ENTRY exactly when a reading of the manual
\* page fails or the first reading gives the empty text for a name that does
\* not end with 32 or 64; the manual is read at most twice, first for the
\* queried name, and a second time only after an empty first page and for
\* the queried name without its last two characters; the definition found
\* after a second reading is chosen for the queried name, not the shortened
\* one: its name is a prefix of the queried name, and is the queried name
\* when the page declares it.
C19_NoManualEntryAndRetry ==
    /\ pc = "done"
         => (result = Returned(NO_MAN_ENTRY, NoRef)
               <=> RetrievalFails \/ (FirstPageEmpty /\ ~EndsWith32Or64(syscall_name)))
    /\ Len(requested) <= 2
    /\ pc # "man" => requested[1] = syscall_name
    /\ Len(requested) = 2
         => /\ FirstPageEmpty
            /\ requested[1] = syscall_name
            /\ requested[2] = SliceTo(requested[1], -2)
            /\ Len(requested[2]) = Len(requested[1]) - 2
    /\ (pc = "done" /\ result.type = FOUND)
         => /\ IsPrefixOf(heap[result.definition].name, requested[1])
            /\ (\E r \in 1..Len(extracted) : extracted[r].name = requested[1])
                 => heap[result.definition].name = requested[1]

\* foo32 was found in the page read for foo, after an empty page for foo32
C19_Witness ==
    /\ pc = "done"
    /\ requested = <<"foo32", "foo">>
    /\ result.type = FOUND
    /\ heap[result.definition].name = "foo32"
    /\ Len(extracted) > 1

\* the line of the page at position i, stripped and without overstrikes
ScannedLine(i) == char_backspace_sub(Strip(man_page[i]))

\* the line of the page at position i, without overstrikes and stripped
FollowingLine(i) == Strip(char_backspace_sub(man_page[i]))

\* the first line of candidate k and the n lines after it, each joined to
\* the text before it by one space, comments being removed as they close
RECURSIVE Assembled(_, _)
Assembled(k, n) ==
    IF n = 0 THEN RemoveComment(ScannedLine(sources[k].first))
    ELSE RemoveComment(Assembled(k, n - 1) \o " " \o FollowingLine(sources[k].first + n))

\* C24: every candidate is its first line and at most three of the lines
\* after it, each piece joined to the text before it by exactly one space,
\* and no line is joined to a text that ends with ";".
C24_JoinBound ==
    \A k \in 1..Len(candidates) :
        /\ sources[k].times <= 3
        /\ sources[k].first + sources[k].times <= Len(man_page)
        /\ candidates[k] = Assembled(k, sources[k].times)
        /\ \A n \in 0..(sources[k].times - 1) : ~EndsWith(Assembled(k, n), ";")

\* a candidate was assembled from a line and the three lines after it
C24_Witness ==
    /\ pc = "done"
    /\ \E k \in 1..Len(candidates) :
          sources[k].times = 3 /\ EndsWith(candidates[k], ";")

\* position of the first DESCRIPTION line from position i on (one past the
\* end of the page when there is none)
RECURSIVE DescriptionAt(_, _)
DescriptionAt(page, i) ==
    IF i > Len(page) THEN Len(page) + 1
    ELSE IF IsMarker(page[i], "DESCRIPTION") THEN i
    ELSE DescriptionAt(page, i + 1)

\* position of the line that ends the synopsis region of the page
SynopsisEnd(page) == DescriptionAt(page, SynopsisAt(page, 1) + 1)

\* the positions of the lines of the page that candidate k was made of
SourceLines(k) == sources[k].first..(sources[k].first + sources[k].times)

\* C25: every candidate is made of lines before the DESCRIPTION line that
\* ends the synopsis region: neither that line nor a line after it is joined
\* onto an unterminated candidate.
C25_MarkerBoundary ==
    \A k \in 1..Len(candidates) :
        \A i \in SourceLines(k) : i < SynopsisEnd(man_page)

\* C27: the candidates are made of disjoint sets of lines of the page: a line
\* joined onto an unterminated candidate is neither the first line of a later
\* candidate nor joined onto another one.
C27_LineUsedOnce ==
    \A k \in 1..Len(candidates) : \A h \in 1..(k - 1) :
        SourceLines(h) \cap SourceLines(k) = {}

\* C26: from the end of the scan on, every declaration keeps the return type
\* and the parameters it was extracted with, and its name is either the
\* extracted name or the extracted name without its first underscore, the
\* latter only when the queried name starts with the shortened name.
C26_UnderscoreOnly ==
    \A r \in 1..Len(extracted) :
        /\ heap[r].ret_type = extracted[r].ret_type
        /\ heap[r].parameters = extracted[r].parameters
        /\ \/ heap[r].name = extracted[r].name
           \/ /\ extracted[r].name = "_" \o heap[r].name
              /\ IsPrefixOf(heap[r].name, syscall_name)

\* the selection is over: a declaration lost its underscore and one with two
\* underscores kept its name
C26_Witness ==
    /\ pc = "done"
    /\ \E r \in 1..Len(extracted) :
          extracted[r].name = "_eventfd" /\ heap[r].name = "eventfd"
    /\ \E r \in 1..Len(extracted) :
          extracted[r].name = "__eventfd" /\ heap[r].name = "__eventfd"

(***************************************************************************)
(* Properties of several lookups                                           *)
(***************************************************************************)

\* the two outcomes are of the same variant with equal declarations, or both
\* are exceptions
Agree(a, b) ==
    \/ a.raised /\ b.raised
    \/ /\ ~a.raised /\ ~b.raised
       /\ a.type = b.type
       /\ a.declaration = b.declaration

\* C30: when SyscallDefinition has ended the lookup that SyscallManual made
\* before it, of the same name in the same page, the two outcomes are of the
\* same variant with equal declarations, or both are exceptions.
C30_VariantsAgree ==
    (running = 2 /\ pc = "done" /\ engine = "SyscallDefinition")
        => Agree(alone[1], OutcomeOf(result))

C22_IndependentLookups ==
    (Len(alone) = 2 /\ suspended # <<>>)
        => /\ pc = "done" => OutcomeOf(result) = alone[running]
           /\ suspended[1].pc = "done" => OutcomeOf(suspended[1].result) = alone[3 - running]
           /\ Range(all_definitions) \cap Range(suspended[1].all_definitions) = {}

\* two different lookups, interleaved, are over and each found a declaration:
\* the first one made ended last and built its Definition after the other
C22_Witness ==
    /\ Len(alone) = 2
    /\ suspended # <<>>
    /\ lookups[1] # lookups[2]
    /\ running = 1
    /\ pc = "done"
    /\ suspended[1].pc = "done"
    /\ result.type = FOUND
    /\ suspended[1].result.type = FOUND
    /\ result.definition > suspended[1].result.definition

=============================================================================
